---- MODULE Spec2Model ----
(***************************************************************************)
(* A model of battleships.py: the Ship and Board classes, the coordinate   *)
(* input helpers and the part of the main script that places a fleet on a  *)
(* Board and then fires at it.                                             *)
(*                                                                         *)
(* The state is one Board object (the record `self`), the Ship objects it  *)
(* owns and the position of the script in the fleet-placement loop or the  *)
(* main loop.  The board is driven the way the script drives               *)
(* either of its two boards: initialise_ships_randomly or                  *)
(* initialise_ships_with_inputs, then apply_shot with coordinates read     *)
(* from the player or drawn from generate_targets().                       *)
(*                                                                         *)
(* The standard game is N = 10 with SHIP_CONTINGENT = (2, 3, 3, 4, 5); the *)
(* model keeps Board's parameter n and the ship lengths as parameters and  *)
(* checks a smaller board and fleet.                                       *)
(*                                                                         *)
(* Spec drives one board; PlacementSpec calls is_valid_placement on its    *)
(* own; FleetSpec places fleets of any lengths; GameSpec runs the whole    *)
(* script, with player_board, computer_board and the turn flag, from the   *)
(* placement prompt to 'You win!' or 'You lose.'.                          *)
(***************************************************************************)
EXTENDS Integers, Sequences, FiniteSets, TLC

\* Board size n of Board(n); the script uses 10.
N == 3

\* How far outside the board a probed start coordinate may lie.
StartPad == 1

\* Lengths of the ships allocated to a board (a scaled-down contingent).
SHIP_CONTINGENT == <<2, 3>>

\* Cell values of Board._board.
Sea == 0
UnhitShip == 1
HitShip == 2
Miss == 3

Range(n) == 0..(n - 1)

Coords == Range(N) \X Range(N)

Directions == {"N", "E", "S", "W"}

ship_varieties == [l \in 2..5 |->
    CASE l = 2 -> "Destroyer" [] l = 3 -> "Submarine"
      [] l = 4 -> "Battleship" [] l = 5 -> "Aircraft Carrier"]

direction_vectors == [d \in Directions |->
    CASE d = "N" -> <<-1, 0>> [] d = "S" -> <<1, 0>>
      [] d = "E" -> <<0, 1>> [] d = "W" -> <<0, -1>>]

----------------------------------------------------------------------------
(* Sequence helpers standing for Python list operations. *)

\* x in list
InSeq(x, s) == \E k \in 1..Len(s) : s[k] = x

\* list.index(x) + 1, or 0 when x is absent
FirstIndex(x, s) ==
    IF InSeq(x, s) THEN CHOOSE k \in 1..Len(s) : s[k] = x /\ \A j \in 1..(k - 1) : s[j] # x
    ELSE 0

\* list.remove(x) for x present: drops the first occurrence
RemoveFirst(x, s) ==
    LET k == FirstIndex(x, s)
    IN  [j \in 1..(Len(s) - 1) |-> IF j < k THEN s[j] ELSE s[j + 1]]

----------------------------------------------------------------------------
(* class Ship *)

Ship(length, start, direction) ==
    LET dv == direction_vectors[direction]
        points == [i \in 1..length |->
                     <<start[1] + (i - 1) * dv[1], start[2] + (i - 1) * dv[2]>>]
    IN  [length    |-> length,
         variety   |-> ship_varieties[length],
         condition |-> length,
         points    |-> points,
         endpoint  |-> points[length]]

\* damage counting the wrong way
damage_up(ship) == [ship EXCEPT !.condition = ship.condition + 1]

damage(ship) == [ship EXCEPT !.condition = ship.condition - 1]

\* sunk one hit early
sunk_early(ship) == ship.condition <= 1

sunk(ship) == ship.condition = 0

----------------------------------------------------------------------------
(* class Board.  A Board is a record: board (the n x n array), ships (the  *)
(* list of Ship objects, held as indices into heap), previous_hits, heap   *)
(* (every Ship object placed on this board, sunk or not) and raised (the   *)
(* exception that ended the program, "none" while it runs).                *)

Board(n) ==
    [board         |-> [row \in Range(n) |-> [col \in Range(n) |-> Sea]],
     ships         |-> <<>>,
     previous_hits |-> <<>>,
     heap          |-> <<>>,
     raised        |-> "none"]

\* self._board[point] read and written, for a point on the board
Cell(b, point) == b.board[point[1]][point[2]]
SetCell(b, point, value) == [b EXCEPT !.board[point[1]][point[2]] = value]

\* numpy accepts an index i of an axis of size N when -N <= i < N
IndexOk(point) == \A k \in 1..2 : point[k] >= -N /\ point[k] < N

\* and a negative index counts from the end
Wrap(point) == <<IF point[1] < 0 THEN point[1] + N ELSE point[1],
                 IF point[2] < 0 THEN point[2] + N ELSE point[2]>>

\* NoIntersection with the test of the cell left out
NoIntersectionUnchecked(b, points, k) == "True"

\* all(self._board[point] != 1 for point in ship), from the k-th point on
RECURSIVE NoIntersection(_, _, _)
NoIntersection(b, points, k) ==
    IF k > Len(points) THEN "True"
    ELSE IF ~IndexOk(points[k]) THEN "IndexError"
    ELSE IF Cell(b, Wrap(points[k])) = UnhitShip THEN "False"
    ELSE NoIntersection(b, points, k + 1)

\* is_valid_placement with the test of the endpoint left out
is_valid_placement_any_end(b, ship) == NoIntersection(b, ship.points, 1)

is_valid_placement(b, ship) ==
    IF \A k \in 1..2 : ship.endpoint[k] \in Range(N)
    THEN NoIntersection(b, ship.points, 1)
    ELSE "False"

\* for point in ship: self._board[point] = 1, from the k-th point on
RECURSIVE MarkPoints(_, _, _)
MarkPoints(b, points, k) ==
    IF k > Len(points) THEN b
    ELSE IF ~IndexOk(points[k]) THEN [b EXCEPT !.raised = "IndexError"]
    ELSE MarkPoints(SetCell(b, Wrap(points[k]), UnhitShip), points, k + 1)

place_ship(b, ship) ==
    MarkPoints([b EXCEPT !.heap = Append(b.heap, ship),
                         !.ships = Append(b.ships, Len(b.heap) + 1)],
               ship.points, 1)

\* is_hit looking at the cell once the shot has struck it
is_hit_struck(b, coordinate) == Cell(b, coordinate) = HitShip

is_hit(b, coordinate) == Cell(b, coordinate) = UnhitShip

vertical_neighbours(coordinate) ==
    LET row == coordinate[1]
        col == coordinate[2]
    IN  SelectSeq(<<<<row + 1, col>>, <<row - 1, col>>>>, LAMBDA c : c[1] \in Range(N))

horizontal_neighbours(coordinate) ==
    LET row == coordinate[1]
        col == coordinate[2]
    IN  SelectSeq(<<<<row, col + 1>>, <<row, col - 1>>>>, LAMBDA c : c[2] \in Range(N))

all_neighbours(coordinate) ==
    vertical_neighbours(coordinate) \o horizontal_neighbours(coordinate)

\* One of the four while loops of can_contain_ship: the number of cells
\* (row, col) + d*(drow, dcol), d = 1, 2, ..., met before the board edge or a
\* cell of value 3.
RECURSIVE RunLength(_, _, _, _, _, _)
RunLength(b, row, col, drow, dcol, d) ==
    LET cell == <<row + d * drow, col + d * dcol>>
    IN  IF cell[1] \in Range(N) /\ cell[2] \in Range(N) /\ Cell(b, cell) < Miss
        THEN 1 + RunLength(b, row, col, drow, dcol, d + 1)
        ELSE 0

\* len(min(self.ships, key=lambda s: len(s))), for a non-empty list
RECURSIVE SmallestShipLength(_, _, _)
SmallestShipLength(b, k, best) ==
    IF k > Len(b.ships) THEN best
    ELSE LET l == b.heap[b.ships[k]].length
         IN  SmallestShipLength(b, k + 1, IF l < best THEN l ELSE best)

\* can_contain_ship measuring the room along the row only
can_contain_ship_row_only(b, coordinate) ==
    LET row == coordinate[1]
        col == coordinate[2]
        max_x_len == 1 + RunLength(b, row, col, 0, 1, 1) + RunLength(b, row, col, 0, -1, 1)
        max_y_len == 1 + RunLength(b, row, col, 1, 0, 1) + RunLength(b, row, col, -1, 0, 1)
        max_possible_len == max_x_len
        smallest_ship == SmallestShipLength(b, 2, b.heap[b.ships[1]].length)
    IN  Cell(b, coordinate) < HitShip /\ smallest_ship <= max_possible_len

\* can_contain_ship accepting only cells of open sea
can_contain_ship_sea_only(b, coordinate) ==
    LET row == coordinate[1]
        col == coordinate[2]
        max_x_len == 1 + RunLength(b, row, col, 0, 1, 1) + RunLength(b, row, col, 0, -1, 1)
        max_y_len == 1 + RunLength(b, row, col, 1, 0, 1) + RunLength(b, row, col, -1, 0, 1)
        max_possible_len == IF max_x_len > max_y_len THEN max_x_len ELSE max_y_len
        smallest_ship == SmallestShipLength(b, 2, b.heap[b.ships[1]].length)
    IN  Cell(b, coordinate) = Sea /\ smallest_ship <= max_possible_len

\* can_contain_ship without the test that the cell was not fired on
can_contain_ship_any_state(b, coordinate) ==
    LET row == coordinate[1]
        col == coordinate[2]
        max_x_len == 1 + RunLength(b, row, col, 0, 1, 1) + RunLength(b, row, col, 0, -1, 1)
        max_y_len == 1 + RunLength(b, row, col, 1, 0, 1) + RunLength(b, row, col, -1, 0, 1)
        max_possible_len == IF max_x_len > max_y_len THEN max_x_len ELSE max_y_len
        smallest_ship == SmallestShipLength(b, 2, b.heap[b.ships[1]].length)
    IN  smallest_ship <= max_possible_len

\* can_contain_ship asking for room for more than the smallest ship
can_contain_ship_strict(b, coordinate) ==
    LET row == coordinate[1]
        col == coordinate[2]
        max_x_len == 1 + RunLength(b, row, col, 0, 1, 1) + RunLength(b, row, col, 0, -1, 1)
        max_y_len == 1 + RunLength(b, row, col, 1, 0, 1) + RunLength(b, row, col, -1, 0, 1)
        max_possible_len == IF max_x_len > max_y_len THEN max_x_len ELSE max_y_len
        smallest_ship == SmallestShipLength(b, 2, b.heap[b.ships[1]].length)
    IN  Cell(b, coordinate) < HitShip /\ smallest_ship < max_possible_len

\* can_contain_ship on a board whose ships list is not empty
can_contain_ship(b, coordinate) ==
    LET row == coordinate[1]
        col == coordinate[2]
        max_x_len == 1 + RunLength(b, row, col, 0, 1, 1) + RunLength(b, row, col, 0, -1, 1)
        max_y_len == 1 + RunLength(b, row, col, 1, 0, 1) + RunLength(b, row, col, -1, 0, 1)
        max_possible_len == IF max_x_len > max_y_len THEN max_x_len ELSE max_y_len
        smallest_ship == SmallestShipLength(b, 2, b.heap[b.ships[1]].length)
    IN  Cell(b, coordinate) < HitShip /\ smallest_ship <= max_possible_len

\* RemovePoints dropping only the hit that sank the ship
RemoveLastHitOnly(b, points, k) ==
    [b EXCEPT !.previous_hits = SubSeq(b.previous_hits, 1, Len(b.previous_hits) - 1)]

\* for point in ship: self._previous_hits.remove(point), from the k-th point
\* on; list.remove raises ValueError when the point is not in the list.
RECURSIVE RemovePoints(_, _, _)
RemovePoints(b, points, k) ==
    IF k > Len(points) THEN b
    ELSE IF ~InSeq(points[k], b.previous_hits) THEN [b EXCEPT !.raised = "ValueError"]
    ELSE RemovePoints([b EXCEPT !.previous_hits = RemoveFirst(points[k], b.previous_hits)],
                      points, k + 1)

\* DamageShip without the test that the ship holds the target
DamageEveryShip(b, id, target) ==
    LET hit == [b EXCEPT !.heap[id] = damage(b.heap[id])]
    IN  IF sunk(hit.heap[id])
        THEN RemovePoints([hit EXCEPT !.ships = RemoveFirst(id, hit.ships)],
                          hit.heap[id].points, 1)
        ELSE hit

\* DamageShip leaving a sunk ship in the list
DamageShipKeepSunk(b, id, target) ==
    IF InSeq(target, b.heap[id].points)
    THEN [b EXCEPT !.heap[id] = damage(b.heap[id])]
    ELSE b

\* The body of `for ship in self.ships` for the ship object id.  The test
\* reads the script's global target_coordinate, not the parameter.
DamageShip(b, id, target) ==
    IF InSeq(target, b.heap[id].points)
    THEN LET hit == [b EXCEPT !.heap[id] = damage(b.heap[id])]
         IN  IF sunk(hit.heap[id])
             THEN RemovePoints([hit EXCEPT !.ships = RemoveFirst(id, hit.ships)],
                               hit.heap[id].points, 1)
             ELSE hit
    ELSE b

\* `for ship in self.ships` with the list iterator at position i.  The
\* iterator re-reads the list's length at each step, so after a removal at
\* position i the ship that moved into position i is passed over.
RECURSIVE ScanShips(_, _, _)
ScanShips(b, i, target) ==
    IF b.raised # "none" \/ i > Len(b.ships) THEN b
    ELSE ScanShips(DamageShip(b, b.ships[i], target), i + 1, target)

\* apply_shot marking a miss on any cell that holds no un-hit ship section
apply_shot_overwriting(b, coordinate, target) ==
    IF Cell(b, coordinate) = UnhitShip
    THEN ScanShips([SetCell(b, coordinate, HitShip)
                      EXCEPT !.previous_hits = Append(b.previous_hits, coordinate)],
                   1, target)
    ELSE SetCell(b, coordinate, Miss)

\* apply_shot leaving a missed cell as it was
apply_shot_unmarked_miss(b, coordinate, target) ==
    IF Cell(b, coordinate) = UnhitShip
    THEN ScanShips([SetCell(b, coordinate, HitShip)
                      EXCEPT !.previous_hits = Append(b.previous_hits, coordinate)],
                   1, target)
    ELSE b

\* apply_shot(coordinate), run while the global target_coordinate is target
apply_shot(b, coordinate, target) ==
    IF Cell(b, coordinate) = UnhitShip
    THEN ScanShips([SetCell(b, coordinate, HitShip)
                      EXCEPT !.previous_hits = Append(b.previous_hits, coordinate)],
                   1, target)
    ELSE IF Cell(b, coordinate) = Sea
         THEN SetCell(b, coordinate, Miss)
         ELSE b

\* The pairs (coordinates[i], coordinates[j]) in the order of the nested
\* comprehension, i the outer index
RECURSIVE AdjacentFrom(_, _, _)
AdjacentFrom(coordinates, i, j) ==
    IF i > Len(coordinates) THEN <<>>
    ELSE IF j > Len(coordinates) THEN AdjacentFrom(coordinates, i + 1, 1)
    ELSE LET coord1 == coordinates[i]
             coord2 == coordinates[j]
             rest == AdjacentFrom(coordinates, i, j + 1)
         IN  IF \/ (coord1[1] - coord2[1] = 1 /\ coord1[2] - coord2[2] = 0)
                \/ (coord1[1] - coord2[1] = 0 /\ coord1[2] - coord2[2] = 1)
             THEN <<<<coord1, coord2>>>> \o rest
             ELSE rest

adjacent_coordinates_in(coordinates) == AdjacentFrom(coordinates, 1, 1)

\* [coord for coord in possible_targets if self.can_contain_ship(coord)]
FilterTargets(b, possible_targets) ==
    SelectSeq(possible_targets, LAMBDA coord : can_contain_ship(b, coord))

\* LineTargets taking the neighbours across the line of the pair
RECURSIVE LineTargetsCrossed(_, _, _, _)
LineTargetsCrossed(b, pairs, k, possible_targets) ==
    IF k > Len(pairs) THEN possible_targets
    ELSE LET coord1 == pairs[k][1]
             coord2 == pairs[k][2]
             added == IF coord1[1] - coord2[1] # 0
                      THEN horizontal_neighbours(coord1) \o horizontal_neighbours(coord2)
                      ELSE vertical_neighbours(coord1) \o vertical_neighbours(coord2)
         IN  LineTargetsCrossed(b, pairs, k + 1, FilterTargets(b, possible_targets \o added))

\* The loop over the adjacent pairs, from the k-th pair on
RECURSIVE LineTargets(_, _, _, _)
LineTargets(b, pairs, k, possible_targets) ==
    IF k > Len(pairs) THEN possible_targets
    ELSE LET coord1 == pairs[k][1]
             coord2 == pairs[k][2]
             added == IF coord1[1] - coord2[1] # 0
                      THEN vertical_neighbours(coord1) \o vertical_neighbours(coord2)
                      ELSE horizontal_neighbours(coord1) \o horizontal_neighbours(coord2)
         IN  LineTargets(b, pairs, k + 1, FilterTargets(b, possible_targets \o added))

\* The loop over previous_hits, from the k-th hit on
RECURSIVE NeighbourTargets(_, _, _)
NeighbourTargets(b, k, possible_targets) ==
    IF k > Len(b.previous_hits) THEN possible_targets
    ELSE NeighbourTargets(b, k + 1,
            FilterTargets(b, possible_targets \o all_neighbours(b.previous_hits[k])))

\* [(row, col) for row in range(n) for col in range(n)]
AllCoordinates == [k \in 1..(N * N) |-> <<(k - 1) \div N, (k - 1) % N>>]

\* generate_targets trying the neighbours of the hits before the lines
generate_targets_hits_first(b) ==
    IF b.ships = <<>> THEN [raised |-> "ValueError", value |-> <<>>]
    ELSE LET tier1 == LineTargets(b, adjacent_coordinates_in(b.previous_hits), 1, <<>>)
             tier2 == NeighbourTargets(b, 1, <<>>)
             tier3 == FilterTargets(b, AllCoordinates)
         IN  [raised |-> "none",
              value  |-> IF tier2 # <<>> THEN tier2
                         ELSE IF tier1 # <<>> THEN tier1
                         ELSE tier3]

\* generate_targets(): the list returned, or the exception raised.  With an
\* empty ships list the first can_contain_ship call raises ValueError from
\* min() of an empty list, and the full scan makes such a call.
generate_targets(b) ==
    IF b.ships = <<>> THEN [raised |-> "ValueError", value |-> <<>>]
    ELSE LET tier1 == LineTargets(b, adjacent_coordinates_in(b.previous_hits), 1, <<>>)
             tier2 == NeighbourTargets(b, 1, <<>>)
             tier3 == FilterTargets(b, AllCoordinates)
         IN  [raised |-> "none",
              value  |-> IF tier1 # <<>> THEN tier1
                         ELSE IF tier2 # <<>> THEN tier2
                         ELSE tier3]

----------------------------------------------------------------------------
(* Coordinate and direction input.  A line typed by the player is modelled *)
(* as its first character and the rest of the line.                        *)

UpperCase == <<"A", "B", "C", "D", "E", "F", "G", "H", "I", "J", "K">>
LowerCase == <<"a", "b", "c", "d", "e", "f", "g", "h", "i", "j", "k">>
Numerals == <<"1", "2", "3", "4", "5", "6", "7", "8", "9", "10", "11">>

\* ROWS = [chr(x + ord('A')) for x in range(N)], COLS = [str(x + 1) ...]
ROWS == SubSeq(UpperCase, 1, N)
COLS == SubSeq(Numerals, 1, N)

\* str.upper() on one character
Upper(ch) ==
    IF InSeq(ch, LowerCase) THEN UpperCase[FirstIndex(ch, LowerCase)] ELSE ch

\* A typed line: `first` is its first character ("" for an empty line),
\* `rest` what follows it.
is_valid_coordinate_string(first, rest) ==
    /\ first # "" /\ rest # ""
    /\ InSeq(Upper(first), ROWS)
    /\ InSeq(rest, COLS)

\* ord(raw_coord[0].upper()) - ord('A'), int(raw_coord[1:]) - 1
ParseCoordinate(first, rest) ==
    <<FirstIndex(Upper(first), UpperCase) - 1, FirstIndex(rest, Numerals) - 1>>

\* The lines a player is taken to type at the coordinate prompt
TypedFirst == {UpperCase[k] : k \in 1..(N + 1)} \cup {LowerCase[1], "?", ""}
TypedRest == {Numerals[k] : k \in 1..(N + 1)} \cup {"0", ""}

\* and at the direction prompt
TypedDirections == {"N", "E", "S", "W", "n", "e", "s", "w", "X", ""}

UpperDirection(d) ==
    CASE d = "n" -> "N" [] d = "e" -> "E" [] d = "s" -> "S" [] d = "w" -> "W" [] OTHER -> d

----------------------------------------------------------------------------
(* The state.  The script's global target_coordinate is assigned at the    *)
(* top of every turn, before apply_shot reads it, and is read nowhere      *)
(* else: a turn binds it locally and no state variable carries it from one *)
(* turn to the next.                                                       *)

VARIABLES
    self,        \* the Board object
    pc,          \* where the script is: "choose", "random", "inputs", "play";
                 \* "probed" after a call of is_valid_placement on its own
    ship_index,  \* position of `for ship_length in ship_lengths` (1-based)
    probe,       \* the last is_valid_placement call made on its own
    ship_lengths,    \* the argument of initialise_ships_randomly/_with_inputs
    player_board,    \* the script's two boards, its turn flag and the number
    computer_board,  \* of shots the computer has fired, for the runs of the
    is_player_turn,  \* whole script (GameSpec); pc is then "choose", "random",
    computer_shots   \* "inputs", "computer", "coin", "loop", "win" or "lose"

game_vars == <<player_board, computer_board, is_player_turn, computer_shots>>

vars == <<self, pc, ship_index, probe, ship_lengths, game_vars>>

\* One board, given the script's contingent
Init ==
    /\ self = Board(N)
    /\ pc = "choose"
    /\ ship_index = 1
    /\ probe = <<>>
    /\ ship_lengths = SHIP_CONTINGENT
    /\ player_board = Board(N)
    /\ computer_board = Board(N)
    /\ is_player_turn = FALSE
    /\ computer_shots = 0

\* The prompt 'Would you like your ships to be randomly placed for you?'.
\* A board placed without the prompt (computer_board) goes the "Y" way.
ChoosePlacement ==
    /\ pc = "choose"
    /\ \E choice \in {"Y", "N", "y", "n", "?", ""} :
         pc' = CASE choice \in {"Y", "y"} -> "random"
                 [] choice \in {"N", "n"} -> "inputs"
                 [] OTHER -> "choose"
    /\ UNCHANGED <<self, ship_index, probe, ship_lengths, game_vars>>

\* One pass of the `while True` loop of either placement method, with the
\* start coordinate and direction it drew: break and place_ship when the
\* placement is valid, go round again when it is not.
TryPlacement(start_coordinate, direction) ==
    LET ship == Ship(ship_lengths[ship_index], start_coordinate, direction)
        valid == is_valid_placement(self, ship)
    IN  CASE valid = "True" ->
               /\ self' = place_ship(self, ship)
               /\ ship_index' = ship_index + 1
               /\ pc' = IF ship_index = Len(ship_lengths) THEN "play" ELSE pc
          [] valid = "False" ->
               UNCHANGED <<self, ship_index, pc>>
          [] OTHER ->
               /\ self' = [self EXCEPT !.raised = valid]
               /\ UNCHANGED <<ship_index, pc>>

initialise_ships_randomly ==
    /\ pc = "random"
    /\ self.raised = "none"
    /\ \E start_coordinate \in Range(N) \X Range(N), direction \in Directions :
         TryPlacement(start_coordinate, direction)
    /\ UNCHANGED <<probe, ship_lengths, game_vars>>

initialise_ships_with_inputs ==
    /\ pc = "inputs"
    /\ self.raised = "none"
    /\ \E first \in TypedFirst, rest \in TypedRest, typed \in TypedDirections :
         /\ is_valid_coordinate_string(first, rest)
         /\ UpperDirection(typed) \in Directions
         /\ TryPlacement(ParseCoordinate(first, rest), UpperDirection(typed))
    /\ UNCHANGED <<probe, ship_lengths, game_vars>>

\* The main loop runs a turn only while the board still has ships
InMainLoop == pc = "play" /\ self.raised = "none" /\ self.ships # <<>>

\* A turn of the player: lines 426-433
PlayerTurn ==
    /\ InMainLoop
    /\ \E first \in TypedFirst, rest \in TypedRest :
         /\ is_valid_coordinate_string(first, rest)
         /\ LET target_coordinate == ParseCoordinate(first, rest)
            IN  self' = apply_shot(self, target_coordinate, target_coordinate)
    /\ UNCHANGED <<pc, ship_index, probe, ship_lengths, game_vars>>

\* A turn of the computer: lines 441-450.  random.choice raises IndexError
\* on an empty list.
ComputerTurn ==
    /\ InMainLoop
    /\ \E target_coordinates \in {generate_targets(self)} :
         IF target_coordinates.raised # "none"
         THEN self' = [self EXCEPT !.raised = target_coordinates.raised]
         ELSE IF target_coordinates.value = <<>>
         THEN self' = [self EXCEPT !.raised = "IndexError"]
         ELSE \E k \in 1..Len(target_coordinates.value) :
                LET target_coordinate == target_coordinates.value[k]
                IN  self' = apply_shot(self, target_coordinate, target_coordinate)
    /\ UNCHANGED <<pc, ship_index, probe, ship_lengths, game_vars>>

Next ==
    \/ ChoosePlacement
    \/ initialise_ships_randomly
    \/ initialise_ships_with_inputs
    \/ PlayerTurn
    \/ ComputerTurn

Spec == Init /\ [][Next]_vars

\* is_valid_placement called on its own, on a board holding any part of the
\* fleet, with a ship of any supported length, any direction and a start
\* coordinate on or near the board.  The call ends the run.
ProbeLengths == DOMAIN ship_varieties
ProbeStarts == (-StartPad..(N - 1 + StartPad)) \X (-StartPad..(N - 1 + StartPad))

ProbePlacement ==
    /\ pc \in {"random", "inputs", "play"}
    /\ self.raised = "none"
    /\ \E length \in ProbeLengths, start \in ProbeStarts, direction \in Directions :
         LET ship == Ship(length, start, direction)
         IN  probe' = [ship |-> ship, result |-> is_valid_placement(self, ship)]
    /\ pc' = "probed"
    /\ UNCHANGED <<self, ship_index, ship_lengths, game_vars>>

PlacementNext ==
    \/ ChoosePlacement
    \/ initialise_ships_randomly
    \/ initialise_ships_with_inputs
    \/ ProbePlacement

PlacementSpec == Init /\ [][PlacementNext]_vars

\* The placement methods called with any ship_lengths of up to MaxFleet
\* lengths, on an empty board
MaxFleet == 3
FleetLengths == {2, 3, 4}
Fleets == UNION {[1..k -> FleetLengths] : k \in 1..MaxFleet}

FleetInit ==
    /\ self = Board(N)
    /\ pc = "choose"
    /\ ship_index = 1
    /\ probe = <<>>
    /\ ship_lengths \in Fleets
    /\ player_board = Board(N)
    /\ computer_board = Board(N)
    /\ is_player_turn = FALSE
    /\ computer_shots = 0

FleetNext ==
    \/ ChoosePlacement
    \/ initialise_ships_randomly
    \/ initialise_ships_with_inputs

FleetSpec == FleetInit /\ [][FleetNext]_vars

----------------------------------------------------------------------------
(* The whole script: two boards, the coin and the main loop.  Both sides   *)
(* are given GameContingent; placement draws and types its start           *)
(* coordinates from the top-left GameSpan x GameSpan cells, and the player *)
(* aims at the first GameRows rows.                                        *)

GameContingent == <<2>>
GameSpan == 1
GameRows == 1

GameStarts == Range(GameSpan) \X Range(GameSpan)

\* The lines the player types for a start coordinate, and for a target
PlacingFirst == {UpperCase[k] : k \in 1..GameSpan} \cup {"?"}
PlacingRest == {Numerals[k] : k \in 1..GameSpan} \cup {""}
AimingFirst == {UpperCase[k] : k \in 1..GameRows} \cup {LowerCase[1], "?"}
AimingRest == {Numerals[k] : k \in 1..N} \cup {""}

GameInit ==
    /\ self = Board(N)
    /\ pc = "choose"
    /\ ship_index = 1
    /\ probe = <<>>
    /\ ship_lengths = GameContingent
    /\ player_board = Board(N)
    /\ computer_board = Board(N)
    /\ is_player_turn = FALSE
    /\ computer_shots = 0

\* One pass of the `while True` loop of a placement method on board b
PlacementPass(b, ship_length, start_coordinate, direction) ==
    LET ship == Ship(ship_length, start_coordinate, direction)
        valid == is_valid_placement(b, ship)
    IN  CASE valid = "True" -> place_ship(b, ship)
          [] valid = "False" -> b
          [] OTHER -> [b EXCEPT !.raised = valid]

\* The pass made on player_board; after the last ship the script goes on to
\* place the computer's fleet
PlaceOnPlayerBoard(start_coordinate, direction) ==
    LET after == PlacementPass(player_board, ship_lengths[ship_index],
                               start_coordinate, direction)
        placed == Len(after.heap) > Len(player_board.heap)
        last == ship_index = Len(ship_lengths)
    IN  /\ player_board' = after
        /\ ship_index' = IF ~placed THEN ship_index
                         ELSE IF last THEN 1 ELSE ship_index + 1
        /\ pc' = IF placed /\ last THEN "computer" ELSE pc
        /\ UNCHANGED <<self, probe, ship_lengths, computer_board,
                       is_player_turn, computer_shots>>

\* player_board.initialise_ships_randomly(SHIP_CONTINGENT)
GamePlaceRandom ==
    /\ pc = "random"
    /\ player_board.raised = "none"
    /\ \E start_coordinate \in GameStarts, direction \in Directions :
         PlaceOnPlayerBoard(start_coordinate, direction)

\* player_board.initialise_ships_with_inputs(SHIP_CONTINGENT)
GamePlaceInputs ==
    /\ pc = "inputs"
    /\ player_board.raised = "none"
    /\ \E first \in PlacingFirst, rest \in PlacingRest, typed \in TypedDirections :
         /\ is_valid_coordinate_string(first, rest)
         /\ UpperDirection(typed) \in Directions
         /\ PlaceOnPlayerBoard(ParseCoordinate(first, rest), UpperDirection(typed))

\* computer_board.initialise_ships_randomly(SHIP_CONTINGENT)
GamePlaceComputer ==
    /\ pc = "computer"
    /\ computer_board.raised = "none"
    /\ \E start_coordinate \in GameStarts, direction \in Directions :
         LET after == PlacementPass(computer_board, ship_lengths[ship_index],
                                    start_coordinate, direction)
             placed == Len(after.heap) > Len(computer_board.heap)
             last == ship_index = Len(ship_lengths)
         IN  /\ computer_board' = after
             /\ ship_index' = IF placed /\ ~last THEN ship_index + 1 ELSE ship_index
             /\ pc' = IF placed /\ last THEN "coin" ELSE pc
    /\ UNCHANGED <<self, probe, ship_lengths, player_board, is_player_turn,
                   computer_shots>>

\* is_player_turn = bool(random.randint(0, 1))
CoinFlip ==
    /\ pc = "coin"
    /\ is_player_turn' \in BOOLEAN
    /\ pc' = "loop"
    /\ UNCHANGED <<self, ship_index, probe, ship_lengths, player_board,
                   computer_board, computer_shots>>

\* The main loop going on after the computer's fleet is destroyed
LoopConditionPlayerOnly == player_board.ships # <<>>

\* The main loop going on until both fleets are destroyed
LoopConditionEither == player_board.ships # <<>> \/ computer_board.ships # <<>>

\* while player_board.ships and computer_board.ships
LoopCondition == player_board.ships # <<>> /\ computer_board.ships # <<>>

\* The script is at the top of the main loop and no call has raised
AtLoop ==
    /\ pc = "loop"
    /\ player_board.raised = "none"
    /\ computer_board.raised = "none"

\* The player's turn
GamePlayerTurn ==
    /\ AtLoop
    /\ LoopCondition
    /\ is_player_turn
    /\ \E first \in AimingFirst, rest \in AimingRest :
         /\ is_valid_coordinate_string(first, rest)
         /\ LET target_coordinate == ParseCoordinate(first, rest)
            IN  /\ is_player_turn' = is_hit(computer_board, target_coordinate)
                /\ computer_board' = apply_shot(computer_board, target_coordinate,
                                                target_coordinate)
    /\ UNCHANGED <<self, pc, ship_index, probe, ship_lengths, player_board,
                   computer_shots>>

\* The computer's turn.  computer_shots counts the shots it has fired; the
\* guard stops the count one past the number of cells of the board.
GameComputerTurn ==
    /\ AtLoop
    /\ LoopCondition
    /\ ~is_player_turn
    /\ computer_shots <= N * N
    /\ \E target_coordinates \in {generate_targets(player_board)} :
         IF target_coordinates.raised # "none"
         THEN /\ player_board' = [player_board EXCEPT !.raised = target_coordinates.raised]
              /\ UNCHANGED <<is_player_turn, computer_shots>>
         ELSE IF target_coordinates.value = <<>>
         THEN /\ player_board' = [player_board EXCEPT !.raised = "IndexError"]
              /\ UNCHANGED <<is_player_turn, computer_shots>>
         ELSE \E k \in 1..Len(target_coordinates.value) :
                LET target_coordinate == target_coordinates.value[k]
                IN  /\ is_player_turn' = ~is_hit(player_board, target_coordinate)
                    /\ player_board' = apply_shot(player_board, target_coordinate,
                                                  target_coordinate)
                    /\ computer_shots' = computer_shots + 1
    /\ UNCHANGED <<self, pc, ship_index, probe, ship_lengths, computer_board>>

\* The loop exits: 'You win!' if player_board.ships, else 'You lose.'
GameOver ==
    /\ AtLoop
    /\ ~LoopCondition
    /\ pc' = IF player_board.ships # <<>> THEN "win" ELSE "lose"
    /\ UNCHANGED <<self, ship_index, probe, ship_lengths, game_vars>>

GameNext ==
    \/ ChoosePlacement
    \/ GamePlaceRandom
    \/ GamePlaceInputs
    \/ GamePlaceComputer
    \/ CoinFlip
    \/ GamePlayerTurn
    \/ GameComputerTurn
    \/ GameOver

GameSpec == GameInit /\ [][GameNext]_vars

\* Every prompt is answered and every step of the script is taken in the end
FairGameSpec == GameSpec /\ WF_vars(GameNext)

----------------------------------------------------------------------------
(* Properties *)

Cells(ship) == {ship.points[k] : k \in 1..Len(ship.points)}

\* The Ship objects placed on the board, and those still in self.ships
Placed == 1..Len(self.heap)
Afloat == {self.ships[k] : k \in 1..Len(self.ships)}

\* C1 Placement exclusivity: the cell sets of any two distinct ships placed
\* on the board through the validated placement loops do not intersect.
C1_PlacementExclusive ==
    \A i, j \in Placed : i # j => Cells(self.heap[i]) \cap Cells(self.heap[j]) = {}

\* Two ships are placed and the second one touches the first.
C1_Witness ==
    /\ Len(self.heap) = 2
    /\ \E c \in Cells(self.heap[1]), d \in Cells(self.heap[2]) :
         (c[1] - d[1]) * (c[1] - d[1]) + (c[2] - d[2]) * (c[2] - d[2]) = 1

\* C2 Bounds: every cell of every placed ship lies within [0,N) x [0,N).
C2_Bounds ==
    \A i \in Placed : Cells(self.heap[i]) \subseteq Coords

\* A placed ship ends on the last row and another on the first column.
C2_Witness ==
    /\ Len(self.heap) = 2
    /\ \E i, j \in Placed :
         /\ i # j
         /\ self.heap[i].endpoint[1] = N - 1
         /\ self.heap[j].endpoint[2] = 0

\* C3 is_valid_placement(ship) returns true if and only if every cell of the
\* ship lies within the board and no cell of it is marked UnhitShip, for any
\* supported length, any direction and any integer start coordinate.
C3_ValidIffFits ==
    probe # <<>> =>
        (probe.result = "True" <=>
            /\ Cells(probe.ship) \subseteq Coords
            /\ \A c \in Cells(probe.ship) : Cell(self, c) # UnhitShip)

\* The ships in self.ships that hold the coordinate c
Holding(c) == {id \in Afloat : c \in Cells(self.heap[id])}

\* C4 Every apply_shot(c) of the main loop on a cell in state UnhitShip sets
\* the cell to HitShip, appends c to previous_hits (from which the cells of a
\* ship sunk by the shot are then taken away) and takes exactly one from the
\* health of exactly one ship, the ship in ships that holds c; every other
\* ship is left as it was, also when the hit ship leaves the list mid-scan.
C4_HitDamagesOneShip ==
    InMainLoop =>
        \A c \in Coords :
            Cell(self, c) = UnhitShip =>
                LET after == apply_shot(self, c, c)
                IN  /\ after.raised = "none"
                    /\ Cell(after, c) = HitShip
                    /\ Cardinality(Holding(c)) = 1
                    /\ \A id \in Holding(c) :
                         /\ after.heap[id].condition = self.heap[id].condition - 1
                         /\ after.previous_hits =
                              IF after.heap[id].condition = 0
                              THEN SelectSeq(Append(self.previous_hits, c),
                                             LAMBDA h : h \notin Cells(self.heap[id]))
                              ELSE Append(self.previous_hits, c)
                    /\ \A id \in Placed \ Holding(c) : after.heap[id] = self.heap[id]

\* The first ship of the list was sunk, so the scan passed over the second,
\* and the second has been hit as well.
C4_Witness ==
    /\ InMainLoop
    /\ Len(self.heap) = 2
    /\ self.ships = <<2>>
    /\ self.heap[1].condition = 0
    /\ self.heap[2].condition < self.heap[2].length

\* C5 Hit/sink consistency: a placed ship is in self.ships if and only if
\* its remaining health is greater than 0.
C5_AfloatIffHealthy ==
    \A id \in Placed : id \in Afloat <=> self.heap[id].condition > 0

\* One ship is sunk and gone from the list while a damaged one is still in it.
C5_Witness ==
    \E i, j \in Placed :
        /\ i \notin Afloat
        /\ j \in Afloat
        /\ self.heap[j].condition < self.heap[j].length

HitCells(ship) == {c \in Cells(ship) : Cell(self, c) = HitShip}

HealthOk ==
    \A id \in Placed :
        /\ self.heap[id].condition \in 0..self.heap[id].length
        /\ self.heap[id].condition = self.heap[id].length - Cardinality(HitCells(self.heap[id]))

\* C6 Health monotonicity: no step raises the remaining health of a ship, and
\* after every step each ship's health lies in [0, length] and equals its
\* length minus the number of its cells in state HitShip.
C6_HealthMonotone ==
    [][/\ \A id \in Placed : self'.heap[id].condition <= self.heap[id].condition
       /\ HealthOk']_vars

\* A ship has lost all of its health and another a part of it.
C6_Witness ==
    \E i, j \in Placed :
        /\ self.heap[i].condition = 0
        /\ self.heap[j].condition > 0
        /\ self.heap[j].condition < self.heap[j].length
        /\ Cardinality(HitCells(self.heap[j])) > 0

\* C7 Every coordinate in previous_hits is in state HitShip and belongs to a
\* ship still in self.ships; no cell of a sunk ship is in previous_hits, and
\* no removal of a sunk ship's cell has failed to find it.
C7_UnresolvedHits ==
    /\ self.raised # "ValueError"
    /\ \A k \in 1..Len(self.previous_hits) :
         /\ Cell(self, self.previous_hits[k]) = HitShip
         /\ Holding(self.previous_hits[k]) # {}
    /\ \A id \in Placed \ Afloat :
         \A c \in Cells(self.heap[id]) : ~InSeq(c, self.previous_hits)

\* A ship was sunk while hits on the other ship were waiting in previous_hits.
C7_Witness ==
    /\ Placed \ Afloat # {}
    /\ Len(self.previous_hits) >= 2
    /\ \E c \in Coords : Cell(self, c) = Miss

\* C8 Every cell in state UnhitShip belongs to exactly one ship in self.ships.
C8_UnhitCellsOwned ==
    \A c \in Coords : Cell(self, c) = UnhitShip => Cardinality(Holding(c)) = 1

\* After shots that sank one ship and hit the other, un-hit cells remain.
C8_Witness ==
    /\ Placed \ Afloat # {}
    /\ self.previous_hits # <<>>
    /\ \E c \in Coords : Cell(self, c) = UnhitShip

\* C9 apply_shot(c) of the main loop on a cell that is not UnhitShip turns a
\* Sea cell into Miss and changes nothing else: a HitShip or Miss cell keeps
\* its state, and ships, healths, previous_hits and all other cells stay.
C9_MissFrame ==
    InMainLoop =>
        \A c \in Coords :
            Cell(self, c) # UnhitShip =>
                LET after == apply_shot(self, c, c)
                IN  /\ \A d \in Coords :
                         Cell(after, d) = IF d = c /\ Cell(self, c) = Sea
                                          THEN Miss ELSE Cell(self, d)
                    /\ after.ships = self.ships
                    /\ after.heap = self.heap
                    /\ after.previous_hits = self.previous_hits
                    /\ after.raised = self.raised

\* The board has a miss, a hit still unresolved, a sunk ship and open sea.
C9_Witness ==
    /\ InMainLoop
    /\ self.previous_hits # <<>>
    /\ Placed \ Afloat # {}
    /\ \E c, d \in Coords : Cell(self, c) = Miss /\ Cell(self, d) = Sea

\* C10 Targeting non-emptiness: while the board has an unsunk ship,
\* generate_targets() returns a list that is not empty.
C10_TargetsNonEmpty ==
    InMainLoop =>
        /\ generate_targets(self).raised = "none"
        /\ generate_targets(self).value # <<>>

\* A ship is sunk and no hit is unresolved, so the answer is the full scan,
\* and the filter rejects a cell never fired on.
C10_Witness ==
    /\ InMainLoop
    /\ Placed \ Afloat # {}
    /\ self.previous_hits = <<>>
    /\ \E c \in Coords : Cell(self, c) = Sea /\ ~can_contain_ship(self, c)

----------------------------------------------------------------------------
(* Targeting *)

Abs(x) == IF x < 0 THEN -x ELSE x

\* Two coordinates one step apart along a row or a column
Adjacent(c, d) == Abs(c[1] - d[1]) + Abs(c[2] - d[2]) = 1

UnresolvedHits == {self.previous_hits[k] : k \in 1..Len(self.previous_hits)}

AdjacentHitPairs == {p \in UnresolvedHits \X UnresolvedHits : Adjacent(p[1], p[2])}

\* c continues the line of the adjacent pair p past one of its two ends (or
\* is one of the two)
OnLineOf(c, p) ==
    /\ Adjacent(c, p[1]) \/ Adjacent(c, p[2])
    /\ IF p[1][1] # p[2][1] THEN c[2] = p[1][2] ELSE c[1] = p[1][1]

\* The tier-1 and tier-2 pools after the feasibility filter
FeasibleLine ==
    {c \in Coords : can_contain_ship(self, c) /\ \E p \in AdjacentHitPairs : OnLineOf(c, p)}
FeasibleNeighbours ==
    {c \in Coords : can_contain_ship(self, c) /\ \E h \in UnresolvedHits : Adjacent(c, h)}

\* The coordinates generate_targets() returns
Returned ==
    LET targets == generate_targets(self).value
    IN  {targets[k] : k \in 1..Len(targets)}

\* C11 as claimed: whenever previous_hits holds two adjacent coordinates,
\* generate_targets() returns exactly the filtered tier-1 pool, whatever the
\* filter leaves of it.
C11_AlwaysTierOne ==
    (InMainLoop /\ AdjacentHitPairs # {}) => Returned = FeasibleLine

\* C11 as amended: whenever previous_hits holds two adjacent coordinates,
\* generate_targets() returns exactly the filtered tier-1 pool if the filter
\* leaves any of it, and the filtered tier-2 pool, which is then not empty,
\* if the filter leaves none; it never falls through to the full scan.
C11_TierOrdering ==
    (InMainLoop /\ AdjacentHitPairs # {}) =>
        /\ FeasibleLine # {} => Returned = FeasibleLine
        /\ FeasibleLine = {} => (Returned = FeasibleNeighbours /\ Returned # {})

\* Two adjacent hits are unresolved and the filter leaves nothing on their
\* line.
C11_Witness ==
    /\ InMainLoop
    /\ AdjacentHitPairs # {}
    /\ FeasibleLine = {}

\* C17: when generate_targets() returns from tier 1, it returns exactly the
\* feasible cells among the vertical neighbours of both hits of every
\* vertically adjacent pair and the horizontal neighbours of both hits of
\* every horizontally adjacent pair: each returned cell lies on the line of
\* some pair, and no hit cell of a pair is returned.
C17_TierOneOnLine ==
    (InMainLoop /\ FeasibleLine # {}) =>
        /\ \A c \in Returned : \E p \in AdjacentHitPairs : OnLineOf(c, p)
        /\ \A c \in Coords :
               (can_contain_ship(self, c) /\ \E p \in AdjacentHitPairs : OnLineOf(c, p))
                   => c \in Returned
        /\ \A p \in AdjacentHitPairs : p[1] \notin Returned /\ p[2] \notin Returned

\* Tier 1 returns while a feasible cell beside a hit of a pair, off the line
\* of every pair, is left out.
C17_Witness ==
    /\ InMainLoop
    /\ FeasibleLine # {}
    /\ \E c \in FeasibleNeighbours : c \notin Returned

----------------------------------------------------------------------------
(* Feasibility *)

\* The cells of the row (axis = 2) or the column (axis = 1) of c that are
\* joined to c by cells that are not misses, c itself included
Run(c, axis) ==
    {d \in Coords :
        /\ d[3 - axis] = c[3 - axis]
        /\ \A e \in Coords :
               ( /\ e[3 - axis] = c[3 - axis]
                 /\ e # c
                 /\ \/ (c[axis] < e[axis] /\ e[axis] <= d[axis])
                    \/ (d[axis] <= e[axis] /\ e[axis] < c[axis]) )
               => Cell(self, e) # Miss}

LongestRun(c) ==
    IF Cardinality(Run(c, 1)) > Cardinality(Run(c, 2))
    THEN Cardinality(Run(c, 1)) ELSE Cardinality(Run(c, 2))

\* The length of the shortest ship still in ships
ShortestAfloat ==
    CHOOSE l \in {self.heap[id].length : id \in Afloat} :
        \A id \in Afloat : l <= self.heap[id].length

\* C15: with a ship afloat, can_contain_ship(c) is true exactly when c is
\* Sea or UnhitShip and the longer of the two runs of non-Miss cells through
\* c is at least as long as the shortest ship still in ships.
C15_FeasibleIffRoom ==
    InMainLoop =>
        \A c \in Coords :
            can_contain_ship(self, c) <=>
                /\ Cell(self, c) \in {Sea, UnhitShip}
                /\ LongestRun(c) >= ShortestAfloat

\* A sea cell is feasible only through the hit cells of a sunk ship, and
\* another sea cell has no room for the shortest ship afloat.
C15_Witness ==
    /\ InMainLoop
    /\ \E c \in Coords :
           /\ Cell(self, c) = Sea
           /\ can_contain_ship(self, c)
           /\ \A axis \in {1, 2} :
                  Cardinality({d \in Run(c, axis) : Cell(self, d) < HitShip}) < ShortestAfloat
    /\ \E c \in Coords : Cell(self, c) = Sea /\ ~can_contain_ship(self, c)

\* C16: in every state of the game, every UnhitShip cell satisfies
\* can_contain_ship.
C16_NoFalseNegative ==
    InMainLoop =>
        \A c \in Coords : Cell(self, c) = UnhitShip => can_contain_ship(self, c)

\* An un-hit section of the last ship afloat lies between a miss and a hit.
C16_Witness ==
    /\ InMainLoop
    /\ Len(self.ships) = 1
    /\ \E c \in Coords :
           /\ Cell(self, c) = UnhitShip
           /\ \E d, e \in Coords :
                  /\ Adjacent(c, d) /\ Cell(self, d) = Miss
                  /\ Adjacent(c, e) /\ Cell(self, e) = HitShip

\* C18: every coordinate generate_targets() returns is on the board and is
\* Sea or UnhitShip, so a shot at it changes that cell to Miss or HitShip.
C18_TargetsUnfired ==
    InMainLoop =>
        \A c \in Returned :
            /\ c \in Coords
            /\ Cell(self, c) \in {Sea, UnhitShip}
            /\ Cell(apply_shot(self, c, c), c) \in {HitShip, Miss}
            /\ Cell(apply_shot(self, c, c), c) # Cell(self, c)

\* Targets are returned from a board with a miss, a hit of a sunk ship and an
\* unresolved hit on it.
C18_Witness ==
    /\ InMainLoop
    /\ Returned # {}
    /\ \E c \in Coords : Cell(self, c) = Miss
    /\ Len(self.ships) < Len(self.heap)
    /\ self.previous_hits # <<>>

----------------------------------------------------------------------------
(* Random placement *)

\* Some in-bounds, non-overlapping arrangement of lengths[k], lengths[k+1],
\* ... exists on board b
RECURSIVE CanPlaceAll(_, _, _)
CanPlaceAll(b, lengths, k) ==
    \/ k > Len(lengths)
    \/ \E start \in Coords, direction \in Directions :
         LET ship == Ship(lengths[k], start, direction)
         IN  /\ Cells(ship) \subseteq Coords
             /\ \A c \in Cells(ship) : Cell(b, c) = Sea
             /\ CanPlaceAll(place_ship(b, ship), lengths, k + 1)

\* C14: when some arrangement of the whole fleet on the board exists, random
\* placement never reaches a board on which the next ship of the fleet has no
\* valid position, the state in which its `while True` loop draws for ever.
C14_NoDeadEnd ==
    ( /\ pc = "random"
      /\ ship_index <= Len(ship_lengths)
      /\ CanPlaceAll(Board(N), ship_lengths, 1) )
    => \E start \in Coords, direction \in Directions :
           is_valid_placement(self, Ship(ship_lengths[ship_index], start, direction)) = "True"

----------------------------------------------------------------------------
(* The main loop *)

\* Some cell of the board went from UnhitShip to HitShip
HitLanded(before, after) ==
    \E c \in Coords : Cell(before, c) = UnhitShip /\ Cell(after, c) = HitShip

\* C12: is_hit(c) is true exactly for an UnhitShip cell, and in every turn
\* of the main loop the side that fired keeps the turn if its shot landed on
\* a cell that was UnhitShip before the shot, and passes it otherwise.
C12_TurnKeptIffHit ==
    [][ (pc = "loop" /\ pc' = "loop") =>
          LET before == IF is_player_turn THEN computer_board ELSE player_board
              after == IF is_player_turn THEN computer_board' ELSE player_board'
          IN  /\ \A c \in Coords : is_hit(before, c) <=> Cell(before, c) = UnhitShip
              /\ (is_player_turn' = is_player_turn) <=> HitLanded(before, after)
      ]_vars

\* Both sides have hit and have missed, and the player has the turn.
C12_Witness ==
    /\ pc = "loop"
    /\ is_player_turn
    /\ \A b \in {player_board, computer_board} :
           /\ \E c \in Coords : Cell(b, c) = HitShip
           /\ \E c \in Coords : Cell(b, c) = Miss

\* C13: no turn is taken once either fleet is destroyed, and when the loop
\* has ended exactly one of the two fleets is empty and the side whose fleet
\* is not is the winner.
C13_StopsAtFirstLoss ==
    [][ /\ (pc = "loop" /\ (player_board' # player_board \/ computer_board' # computer_board))
            => (player_board.ships # <<>> /\ computer_board.ships # <<>>)
        /\ pc' \in {"win", "lose"} =>
               /\ (player_board'.ships = <<>>) # (computer_board'.ships = <<>>)
               /\ pc' = "win" <=> player_board'.ships # <<>>
               /\ pc' = "lose" <=> computer_board'.ships # <<>>
      ]_vars

\* The player has won with a ship that was hit.
C13_Witness ==
    /\ pc = "win"
    /\ computer_board.ships = <<>>
    /\ player_board.previous_hits # <<>>

\* C19: generate_targets(), and through it can_contain_ship, is called only
\* on a player_board whose ships list is not empty: the computer's turn is
\* never taken on an empty list and min() never raises ValueError.
C19_TargetingHasShips ==
    /\ player_board.raised # "ValueError"
    /\ (ENABLED GameComputerTurn) => player_board.ships # <<>>

\* The computer is to aim with the player's last ship one hit from sunk.
C19_Witness ==
    /\ AtLoop
    /\ ~is_player_turn
    /\ Len(player_board.ships) = 1
    /\ player_board.heap[player_board.ships[1]].condition = 1
    /\ computer_board.ships # <<>>

\* C20: from any placement of the two fleets the main loop comes to its end,
\* with one fleet destroyed, and the computer fires at most N * N shots.
C20_GameEnds ==
    /\ (pc = "loop") ~> (pc \in {"win", "lose"} /\ ~LoopCondition)
    /\ [](computer_shots <= N * N)

\* The game has ended with the player's fleet destroyed, after a hit by the
\* player and shots of the computer at all but two of the cells, or more.
C20_Witness ==
    /\ pc = "lose"
    /\ computer_shots >= N * N - 2
    /\ computer_board.previous_hits # <<>>

====
